---- MODULE Spec2Model ----
(***************************************************************************)
(* Tiled ("sliced") inference and multi-scale detection merging of         *)
(* scripts/modules/supervision_wrapper.py (class SupervisionWrapper).      *)
(*                                                                         *)
(* Lengths are pixels, boxes are <<x1, y1, x2, y2>>, tiles are records     *)
(* [x, y, w, h], confidences are integer percents and an IoU threshold is  *)
(* the fraction <<num, den>>.  Shapes are <<height, width>> and sizes are  *)
(* <<width, height>>, as in the source.                                    *)
(***************************************************************************)
EXTENDS Integers, Sequences, FiniteSets, TLC

\* ------------------------------------------------------------------ bounds
MaxDim == 5          \* small images have sides 0..MaxDim
MaxSlice == 3        \* small slice sides 1..MaxSlice
MaxOverlap == 2      \* small overlaps 0..MaxOverlap

\* ------------------------------------------------- program constants
DefaultSlice == 640      \* small_object_config['slice_wh']
DefaultOverlap == 128    \* small_object_config['overlap_wh']
ScenarioWidth == 1280    \* the end-to-end scenario image
ScenarioHeight == 720

MaxSets == 2         \* detection sets handed to one merge
MaxDets == 2         \* detections per set handed to one merge
MaxWorkers == 2      \* thread_workers is 1..MaxWorkers
MaxLocal == 1        \* detections one callback returns
FrameIds == 3        \* frames of the heatmap history are told apart modulo this
MaxWritten == 2      \* frames one capture session writes before it must end

VARIABLES
    small_object_config,   \* self.small_object_config
    last_call,             \* the scheduling call made under this configuration
    detections_list,       \* argument of _merge_multi_scale_detections
    iou_threshold,         \* argument of _merge_multi_scale_detections
    merged,                \* what the merge returned
    remerged,              \* the merge of [merged]
    merge_pc,              \* "input", "merged", "remerged" or "resolved"
    mode,                  \* the overlap resolver's mode of the last merge
    pc,                    \* position of the top-level detection call
    call,                  \* its arguments: method, image_shape, iou
    scale,                 \* 0 in a single pass, else the index i+1 of the scale
    pass_args,             \* slice_wh / overlap_wh of the running pass
    regions,               \* tiles of the running pass
    next_tile,             \* first tile not yet handed to a worker
    inflight,              \* tiles whose callback is running
    buffer,                \* detections moved to image coordinates so far
    detector_calls,        \* callback invocations since the top-level call
    detector_log,          \* what callback returned or raised, per tile
    all_detections,        \* detect_with_multiple_scales: all_detections
    scale_results,         \* detect_with_multiple_scales: scale_results keys
    result,                \* the dictionary the top-level call returned
    ui,                    \* what detect_image_with_small_objects showed
    error_log,             \* logging.error records of detect_small_objects
    select_call,           \* the last call of a configuration selector
    select_prev,           \* the selector call before it
    enabled_annotators,    \* AnnotatorManager.enabled_annotators
    annot_call,            \* the last annotator call and the list before it
    configs,               \* AnnotatorManager.configs[t].enabled, per type
    annotators,            \* AnnotatorManager.annotators[t]: built or None
    heatmap_history,       \* AnnotatorManager.heatmap_history, by frame number
    frame_count,           \* frames appended so far, modulo FrameIds
    annotate_call,         \* the last annotate_image call and what it returned
    window                 \* YOLODetectionUI: capture session and buttons

tileVars == <<small_object_config, last_call>>
mergeVars ==
    <<detections_list, iou_threshold, merged, remerged, merge_pc, mode>>
passVars ==
    <<pc, call, scale, pass_args, regions, next_tile, inflight, buffer,
      detector_calls, detector_log, all_detections, scale_results, result,
      ui, error_log>>
selectVars == <<select_call, select_prev>>
annotVars == <<enabled_annotators, annot_call>>
managerVars ==
    <<configs, annotators, heatmap_history, frame_count, annotate_call>>
captureVars == <<window>>
restVars == <<selectVars, annotVars, managerVars, captureVars>>
vars == <<tileVars, mergeVars, passVars, restVars>>

\* ------------------------------------------------------------- arithmetic
Max(a, b) == IF a >= b THEN a ELSE b
Min(a, b) == IF a <= b THEN a ELSE b

\* Python's a // b for b # 0: the floor of the quotient, also for b < 0.
FloorDiv(a, b) == IF b > 0 THEN a \div b ELSE (0 - a) \div (0 - b)

\* ------------------------------------------ _estimate_slice_count (source)
\* cols (resp. rows) of the estimate along one axis.
AxisCountFloor(dim, slice, overlap) ==
    Max(1, FloorDiv(dim - overlap, slice - overlap))

AxisCountNoOverlap(dim, slice, overlap) ==
    Max(1, FloorDiv(dim + (slice - overlap) - 1, slice - overlap))

AxisCount(dim, slice, overlap) ==
    Max(1, FloorDiv(dim - overlap + (slice - overlap) - 1, slice - overlap))

\* rows * cols, or the ZeroDivisionError Python raises for a zero step
\* (raised = "" when the call returns).
estimate_slice_count(image_shape, slice_wh, overlap_wh) ==
    LET height == image_shape[1]
        width == image_shape[2]
        step_w == slice_wh[1] - overlap_wh[1]
        step_h == slice_wh[2] - overlap_wh[2]
    IN  IF step_w = 0 \/ step_h = 0
        THEN [raised |-> "ZeroDivisionError", count |-> 0]
        ELSE [raised |-> "",
              count |-> AxisCount(height, slice_wh[2], overlap_wh[2])
                        * AxisCount(width, slice_wh[1], overlap_wh[1])]

\* --------------------------------------------- Tile Scheduler (spec 4.1)
\* Origins and sizes <<x, w>> along one axis: start at 0, advance by the
\* step, clamp the last tile so that x + w = dim.
RECURSIVE AxisTilesNoClamp(_, _, _, _)
AxisTilesNoClamp(x, dim, slice, step) ==
    IF x + slice >= dim
    THEN << <<x, slice>> >>
    ELSE << <<x, slice>> >> \o AxisTilesNoClamp(x + step, dim, slice, step)

RECURSIVE AxisTiles(_, _, _, _)
AxisTiles(x, dim, slice, step) ==
    IF x + slice >= dim
    THEN << <<Max(0, dim - slice), Min(slice, dim)>> >>
    ELSE << <<x, slice>> >> \o AxisTiles(x + step, dim, slice, step)

ValidStep(slice_wh, overlap_wh) ==
    /\ slice_wh[1] - overlap_wh[1] > 0
    /\ slice_wh[2] - overlap_wh[2] > 0

ValidShape(image_shape) == image_shape[1] > 0 /\ image_shape[2] > 0

\* The ordered tile list (row-major), or InvalidConfig.
Schedule(image_shape, slice_wh, overlap_wh) ==
    IF ~ValidStep(slice_wh, overlap_wh) \/ ~ValidShape(image_shape)
    THEN [raised |-> "InvalidConfig", regions |-> <<>>]
    ELSE LET colsT == AxisTiles(0, image_shape[2], slice_wh[1],
                                slice_wh[1] - overlap_wh[1])
             rowsT == AxisTiles(0, image_shape[1], slice_wh[2],
                                slice_wh[2] - overlap_wh[2])
             nc == Len(colsT)
         IN  [raised |-> "",
              regions |->
                  [i \in 1..(Len(rowsT) * nc) |->
                      LET r == ((i - 1) \div nc) + 1
                          c == ((i - 1) % nc) + 1
                      IN  [x |-> colsT[c][1], y |-> rowsT[r][1],
                           w |-> colsT[c][2], h |-> rowsT[r][2]]]]

\* ------------------------------------------------------------ input sets
SmallConfigs ==
    [slice_wh : (1..MaxSlice) \X (1..MaxSlice),
     overlap_wh : (0..MaxOverlap) \X (0..MaxOverlap),
     iou_threshold : {<<1, 2>>},
     thread_workers : {1}]
SmallShapes == (0..MaxDim) \X (0..MaxDim)
DefaultConfig ==
    [slice_wh |-> <<DefaultSlice, DefaultSlice>>,
     overlap_wh |-> <<DefaultOverlap, DefaultOverlap>>,
     iou_threshold |-> <<1, 2>>,
     thread_workers |-> 1]

Configs == SmallConfigs \cup {DefaultConfig}

\* The scenario image is scheduled under the default configuration only.
ImageShapes(config) ==
    SmallShapes \cup
        (IF config = DefaultConfig
         THEN {<<ScenarioHeight, ScenarioWidth>>} ELSE {})

NoCall ==
    [op |-> "none", image_shape |-> <<0, 0>>, raised |-> "",
     count |-> 0, regions |-> <<>>]

\* ---------------------------------------------------------------- actions
\* configure_small_object_detection: stores the values, validates nothing.
configure_small_object_detection ==
    /\ \E config \in Configs : small_object_config' = config
    /\ last_call' = NoCall
    /\ UNCHANGED <<mergeVars, passVars, restVars>>

EstimateCall ==
    \E shape \in ImageShapes(small_object_config) :
        LET out == estimate_slice_count(shape,
                       small_object_config.slice_wh,
                       small_object_config.overlap_wh)
        IN
        /\ last_call' =
               [op |-> "estimate", image_shape |-> shape,
                raised |-> out.raised, count |-> out.count,
                regions |-> <<>>]
        /\ UNCHANGED <<small_object_config, mergeVars, passVars, restVars>>

ScheduleCall ==
    \E shape \in ImageShapes(small_object_config) :
        LET out == Schedule(shape, small_object_config.slice_wh,
                            small_object_config.overlap_wh)
        IN
        /\ last_call' =
               [op |-> "schedule", image_shape |-> shape,
                raised |-> out.raised, count |-> 0,
                regions |-> out.regions]
        /\ UNCHANGED <<small_object_config, mergeVars, passVars, restVars>>

MergeIdle ==
    /\ detections_list = <<>>
    /\ iou_threshold = <<1, 2>>
    /\ merged = <<>>
    /\ remerged = <<>>
    /\ merge_pc = "idle"
    /\ mode = "CLASS_AWARE_NMS"

NoResult ==
    [returned |-> FALSE, detections_none |-> TRUE, detections |-> <<>>,
     detection_count |-> 0, error |-> "", method |-> "",
     total_slices |-> 0, scale_results |-> <<>>]

NoPass == [slice_wh |-> <<0, 0>>, overlap_wh |-> <<0, 0>>]
NoTopCall == [method |-> "", image_shape |-> <<0, 0>>, iou |-> <<1, 2>>]

PassIdle ==
    /\ pc = "idle"
    /\ call = NoTopCall
    /\ scale = 0
    /\ pass_args = NoPass
    /\ regions = <<>>
    /\ next_tile = 1
    /\ inflight = {}
    /\ buffer = <<>>
    /\ detector_calls = 0
    /\ detector_log = <<>>
    /\ all_detections = <<>>
    /\ scale_results = <<>>
    /\ result = NoResult
    /\ ui = "none"
    /\ error_log = <<>>

NoSelect ==
    [op |-> "none", image_shape |-> <<0, 0>>, raised |-> "",
     slice_wh |-> <<0, 0>>, overlap_wh |-> <<0, 0>>, estimated_slices |-> 0]

SelectIdle == select_call = NoSelect /\ select_prev = NoSelect

\* The values of the enumeration AnnotatorType, in its order.
AnnotatorType ==
    {"box", "label", "mask", "polygon", "heatmap", "blur", "pixelate"}

\* enabled_annotators after AnnotatorManager.__init__ under the default
\* configuration: box and label.
DefaultEnabled == <<"box", "label">>
NoAnnotCall == [api |-> "none", op |-> "none", name |-> "", before |-> <<>>]

AnnotIdle == enabled_annotators = DefaultEnabled /\ annot_call = NoAnnotCall

\* The enabled flags of _load_default_config, every annotator built, no
\* frame in the heatmap history and no annotate_image call made.
DefaultConfigs == [t \in AnnotatorType |-> t \in {"box", "label"}]
AllBuilt == [t \in AnnotatorType |-> "built"]
NoAnnotate ==
    [op |-> "none", detections |-> "None", custom_annotators |-> <<>>,
     mask |-> FALSE, failing |-> {}, layers |-> <<>>, copy |-> FALSE,
     full |-> FALSE]

ManagerIdle ==
    /\ configs = DefaultConfigs
    /\ annotators = AllBuilt
    /\ heatmap_history = <<>>
    /\ frame_count = 0
    /\ annotate_call = NoAnnotate

\* YOLODetectionUI.__init__ and setup_function_group: no model, no capture,
\* no writer, the timer not started; the stop button is disabled, the three
\* start buttons are created enabled.
NewWindow ==
    [model |-> FALSE, cap |-> "None", video_writer |-> "None",
     timer |-> FALSE, is_camera_running |-> FALSE,
     image_btn |-> TRUE, video_btn |-> TRUE, camera_btn |-> TRUE,
     stop_btn |-> FALSE, save_btn |-> FALSE, written |-> 0,
     closed |-> FALSE, last |-> "none", outcome |-> ""]

CaptureIdle == window = NewWindow

RestIdle == SelectIdle /\ AnnotIdle /\ ManagerIdle /\ CaptureIdle

TileInit ==
    /\ small_object_config = DefaultConfig
    /\ last_call = NoCall
    /\ MergeIdle
    /\ PassIdle
    /\ RestIdle

TileNext ==
    \/ configure_small_object_detection
    \/ EstimateCall
    \/ ScheduleCall

SpecTile == TileInit /\ [][TileNext]_vars

\* ------------------------------------------------------- tile properties
Returned == last_call.op # "none" /\ last_call.raised = ""
Tiles == last_call.regions

\* The call under observation and its configuration.
CallShape == last_call.image_shape
CallSlice == small_object_config.slice_wh
CallOverlap == small_object_config.overlap_wh
Scheduled == last_call.op = "schedule"
Estimated == last_call.op = "estimate"
IsScenario ==
    /\ CallShape = <<ScenarioHeight, ScenarioWidth>>
    /\ small_object_config = DefaultConfig

InBounds(t, image_shape) ==
    /\ 0 <= t.x /\ 0 <= t.y
    /\ t.w > 0 /\ t.h > 0
    /\ t.x + t.w <= image_shape[2]
    /\ t.y + t.h <= image_shape[1]

Covers(tiles, image_shape) ==
    \A px \in 0..(image_shape[2] - 1), py \in 0..(image_shape[1] - 1) :
        \E i \in DOMAIN tiles :
            /\ tiles[i].x <= px /\ px < tiles[i].x + tiles[i].w
            /\ tiles[i].y <= py /\ py < tiles[i].y + tiles[i].h

\* C1: for every image with H > 0 and W > 0 and every configuration with
\* 0 <= overlap < slice on both axes, the scheduled tiles cover every pixel
\* of the image and every tile lies inside the image with w > 0 and h > 0.
C1_Coverage ==
    (Scheduled /\ ValidShape(CallShape) /\ ValidStep(CallSlice, CallOverlap))
        => /\ Returned
           /\ \A i \in DOMAIN Tiles : InBounds(Tiles[i], CallShape)
           /\ Covers(Tiles, CallShape)

\* A schedule of several columns and rows whose last column was pulled back
\* to the image edge (its origin is not a multiple of the step).
C1_Witness ==
    /\ Scheduled /\ Returned
    /\ Len(Tiles) >= 4
    /\ \E i \in DOMAIN Tiles :
           /\ Tiles[i].x % (CallSlice[1] - CallOverlap[1]) # 0
           /\ Tiles[i].x + Tiles[i].w = CallShape[2]
           /\ Tiles[i].y > 0

\* C2 (as claimed): a scheduling call raises exactly when overlap >= slice
\* on some axis, and returns a result for every other configuration.
C2_RaisesIffStepNonPositive ==
    Estimated =>
        (~Returned <=> ~ValidStep(CallSlice, CallOverlap))

\* C4 (as claimed): the 1280x720 scenario with slice 640 and overlap 128 is
\* a 3x2 grid with column origins 0, 512, 640 and row origins 0, 180.
C4_ScenarioRows180 ==
    (Scheduled /\ IsScenario) =>
        /\ Len(Tiles) = 6
        /\ {Tiles[i].x : i \in DOMAIN Tiles} = {0, 512, 640}
        /\ {Tiles[i].y : i \in DOMAIN Tiles} = {0, 180}

\* C4 (amended): in the scenario the step is (512, 512), the slice count is
\* 3 columns by 2 rows, the column origins are 0, 512, 640 and the row
\* origins are 0, 80; every tile has x + w <= 1280 and the last column and
\* the last row end exactly at the image edge.
C4_Scenario ==
    /\ (Estimated /\ IsScenario) =>
           /\ CallSlice[1] - CallOverlap[1] = 512
           /\ CallSlice[2] - CallOverlap[2] = 512
           /\ AxisCount(CallShape[2], CallSlice[1], CallOverlap[1]) = 3
           /\ AxisCount(CallShape[1], CallSlice[2], CallOverlap[2]) = 2
           /\ Returned /\ last_call.count = 6
    /\ (Scheduled /\ IsScenario) =>
           /\ Len(Tiles) = 6
           /\ {Tiles[i].x : i \in DOMAIN Tiles}
                  = {0, 512, 640}
           /\ {Tiles[i].y : i \in DOMAIN Tiles} = {0, 80}
           /\ \A i \in DOMAIN Tiles :
                  /\ Tiles[i].x + Tiles[i].w <= ScenarioWidth
                  /\ Tiles[i].x = 640 =>
                         Tiles[i].x + Tiles[i].w
                             = ScenarioWidth
                  /\ Tiles[i].y = 80 =>
                         Tiles[i].y + Tiles[i].h
                             = ScenarioHeight

C4_Witness == Scheduled /\ IsScenario /\ Returned

\* C5: when the slice is at least the image on both axes, the schedule is
\* the single tile (0, 0, W, H), for every valid overlap, and the slice
\* count is 1.
Degenerate ==
    /\ ValidShape(CallShape) /\ ValidStep(CallSlice, CallOverlap)
    /\ CallSlice[1] >= CallShape[2]
    /\ CallSlice[2] >= CallShape[1]

C5_SingleTile ==
    /\ (Scheduled /\ Degenerate) =>
           /\ Returned
           /\ Tiles = << [x |-> 0, y |-> 0,
                          w |-> CallShape[2], h |-> CallShape[1]] >>
    /\ (Estimated /\ Degenerate) => Returned /\ last_call.count = 1

\* A degenerate call with a non-zero overlap on an image smaller than the
\* slice.
C5_Witness ==
    /\ Scheduled /\ Degenerate
    /\ CallOverlap[1] > 0
    /\ CallSlice[1] > CallShape[2]
    /\ Len(Tiles) = 1

\* C28 (as claimed): for a well-formed image and 0 <= overlap < slice, the
\* slice count _estimate_slice_count reports is the number of tiles of the
\* schedule that starts at (0, 0), advances by the step and clamps the last
\* tile of each axis; for a step <= 0 on some axis it returns no count.
C28_EstimateIsScheduleCount ==
    Estimated =>
        /\ (ValidShape(CallShape) /\ ValidStep(CallSlice, CallOverlap)) =>
               /\ Returned
               /\ last_call.count
                      = Len(Schedule(CallShape, CallSlice,
                                     CallOverlap).regions)
        /\ ~ValidStep(CallSlice, CallOverlap) => ~Returned

\* ------------------------------------------------ detections and geometry
\* A detection is [box, confidence, class_id]; boxes are <<x1, y1, x2, y2>>.
Area(b) == (b[3] - b[1]) * (b[4] - b[2])

Intersection(a, b) ==
    Max(0, Min(a[3], b[3]) - Max(a[1], b[1]))
        * Max(0, Min(a[4], b[4]) - Max(a[2], b[2]))

Union(a, b) == Area(a) + Area(b) - Intersection(a, b)

\* IoU(a, b) > t for the threshold t = <<num, den>>, without division.
IoUExceeds(a, b, t) == Intersection(a, b) * t[2] > t[1] * Union(a, b)

\* ------------------------------------------- Overlap Resolver (spec 4.3)
\* Stable sort by confidence, descending: ties keep their insertion order.
RECURSIVE InsertByConfidence(_, _)
InsertByConfidence(d, sorted) ==
    IF sorted = <<>> THEN <<d>>
    ELSE IF Head(sorted).confidence >= d.confidence
         THEN <<Head(sorted)>> \o InsertByConfidence(d, Tail(sorted))
         ELSE <<d>> \o sorted

RECURSIVE SortByConfidence(_)
SortByConfidence(dets) ==
    IF dets = <<>> THEN <<>>
    ELSE InsertByConfidence(dets[Len(dets)],
                            SortByConfidence(SubSeq(dets, 1, Len(dets) - 1)))

Suppresses(k, d, t, class_agnostic) ==
    /\ class_agnostic \/ k.class_id = d.class_id
    /\ IoUExceeds(k.box, d.box, t)

\* Visit in sorted order; keep a detection unless a kept one suppresses it.
RECURSIVE Greedy(_, _, _, _)
Greedy(sorted, kept, t, class_agnostic) ==
    IF sorted = <<>> THEN kept
    ELSE LET d == Head(sorted)
             suppressed ==
                 \E i \in DOMAIN kept :
                     Suppresses(kept[i], d, t, class_agnostic)
         IN  Greedy(Tail(sorted),
                    IF suppressed THEN kept ELSE Append(kept, d),
                    t, class_agnostic)

with_nms(dets, t, class_agnostic) ==
    Greedy(SortByConfidence(dets), <<>>, t, class_agnostic)

\* The modes of Overlap Resolver.merge: NONE passes its input through, the
\* two NMS modes run the greedy pass within a class or across classes.
Modes == {"NONE", "CLASS_AWARE_NMS", "CLASS_AGNOSTIC_NMS"}

merge(dets, t, m) ==
    IF m = "NONE" THEN dets
    ELSE with_nms(dets, t, m = "CLASS_AGNOSTIC_NMS")

\* ------------------------------ _merge_multi_scale_detections (source)
RECURSIVE Concat(_)
Concat(list) ==
    IF list = <<>> THEN <<>> ELSE Head(list) \o Concat(Tail(list))

\* The concatenation returned without with_nms.
merge_without_nms(list, t) ==
    IF Len(list) = 0 THEN <<>>
    ELSE IF Len(list) = 1 THEN list[1]
    ELSE Concat(list)

\* with_nms called with class_agnostic=True.
merge_class_agnostic(list, t) ==
    IF Len(list) = 0 THEN <<>>
    ELSE IF Len(list) = 1 THEN list[1]
    ELSE IF Concat(list) = <<>> THEN <<>>
    ELSE with_nms(Concat(list), t, TRUE)

merge_multi_scale_detections(list, t) ==
    IF Len(list) = 0 THEN <<>>
    ELSE IF Len(list) = 1 THEN list[1]
    ELSE IF Concat(list) = <<>> THEN <<>>
    ELSE with_nms(Concat(list), t, FALSE)

\* ------------------------------------------------------ merge input sets
BoxA == <<0, 0, 10, 10>>
BoxB == <<0, 0, 10, 9>>      \* IoU with BoxA: 0.9
BoxC == <<0, 0, 10, 5>>      \* IoU with BoxA: 0.5, with BoxB: 0.56
BoxD == <<20, 20, 30, 30>>   \* disjoint from the others

DetA90 == [box |-> BoxA, confidence |-> 90, class_id |-> 0]
DetB80 == [box |-> BoxB, confidence |-> 80, class_id |-> 0]
DetC70 == [box |-> BoxC, confidence |-> 70, class_id |-> 0]
DetB80Other == [box |-> BoxB, confidence |-> 80, class_id |-> 1]
DetD80 == [box |-> BoxD, confidence |-> 80, class_id |-> 0]

DetectionPool == {DetA90, DetB80, DetC70, DetB80Other, DetD80}
IouThresholds == {<<1, 2>>, <<45, 100>>}

SeqsUpTo(S, n) == UNION {[1..k -> S] : k \in 0..n}

\* A detector and a tiled pass list their detections by confidence,
\* descending, and never list one twice.
ByConfidence(ds) ==
    \A i \in DOMAIN ds, j \in DOMAIN ds :
        i < j => ds[i] # ds[j] /\ ds[i].confidence >= ds[j].confidence

DetectionSets == {ds \in SeqsUpTo(DetectionPool, MaxDets) : ByConfidence(ds)}

\* ----------------------------------------------------------- merge spec
MergeInit ==
    /\ small_object_config = DefaultConfig
    /\ last_call = NoCall
    /\ detections_list \in SeqsUpTo(DetectionSets, MaxSets)
    /\ iou_threshold \in IouThresholds
    /\ merged = <<>>
    /\ remerged = <<>>
    /\ merge_pc = "input"
    /\ mode = "CLASS_AWARE_NMS"
    /\ PassIdle
    /\ RestIdle

MergeCall ==
    /\ merge_pc = "input"
    /\ merged' = merge_multi_scale_detections(detections_list, iou_threshold)
    /\ merge_pc' = "merged"
    /\ UNCHANGED <<detections_list, iou_threshold, remerged, mode, tileVars,
                   passVars, restVars>>

\* The merge applied to its own output.
MergeAgain ==
    /\ merge_pc = "merged"
    /\ remerged' = merge_multi_scale_detections(<<merged>>, iou_threshold)
    /\ merge_pc' = "remerged"
    /\ UNCHANGED <<detections_list, iou_threshold, merged, mode, tileVars,
                   passVars, restVars>>

\* Overlap Resolver.merge on the concatenation, in any of its modes.
ResolveCall ==
    /\ merge_pc = "input"
    /\ \E m \in Modes :
           /\ mode' = m
           /\ merged' = merge(Concat(detections_list), iou_threshold, m)
    /\ merge_pc' = "resolved"
    /\ UNCHANGED <<detections_list, iou_threshold, remerged, tileVars,
                   passVars, restVars>>

MergeNext == MergeCall \/ MergeAgain \/ ResolveCall

SpecMerge == MergeInit /\ [][MergeNext]_vars

\* -------------------------------------------------------- merge properties
MergeDone == merge_pc \in {"merged", "remerged"}

\* C9 (as claimed): the merge is greedy NMS over all the detections it is
\* given, visited by confidence descending with ties in insertion order; two
\* same-class detections with IoU 0.9 and confidences 0.9 / 0.8 merge, at
\* threshold 0.5, to the 0.9 one alone.
C9_MergeIsGreedyNMS ==
    MergeDone =>
        /\ SortByConfidence(merged)
               = with_nms(Concat(detections_list), iou_threshold, FALSE)
        /\ (Concat(detections_list) = <<DetA90, DetB80>>
                /\ iou_threshold = <<1, 2>>) => merged = <<DetA90>>

\* C10 (as claimed): merging a merge output again returns it unchanged, and
\* no detection of a merge output is suppressible by another one of it.
C10_Idempotent ==
    /\ merge_pc = "remerged" => remerged = merged
    /\ MergeDone =>
           \A i \in DOMAIN merged, j \in DOMAIN merged :
               i # j => ~Suppresses(merged[i], merged[j],
                                    iou_threshold, FALSE)

\* Exactly two detections of different classes whose IoU exceeds the
\* threshold were handed to the merge.
TwoOverlappingClasses ==
    LET ds == Concat(detections_list)
    IN  /\ Len(ds) = 2
        /\ ds[1].class_id # ds[2].class_id
        /\ IoUExceeds(ds[1].box, ds[2].box, iou_threshold)

\* C11: two boxes of different classes whose IoU exceeds the threshold are
\* both kept under CLASS_AWARE_NMS and reduced to the one of higher
\* confidence under CLASS_AGNOSTIC_NMS, at the same threshold; mode NONE
\* returns its input unchanged; the wrapper's own merge, which calls
\* with_nms with the threshold only, is class-aware and keeps both.
C11_ModesOfMerge ==
    /\ (merge_pc = "resolved" /\ TwoOverlappingClasses) =>
           LET ds == Concat(detections_list)
           IN  /\ mode = "CLASS_AWARE_NMS" =>
                      /\ Len(merged) = 2
                      /\ {merged[i] : i \in DOMAIN merged} = {ds[1], ds[2]}
               /\ mode = "CLASS_AGNOSTIC_NMS" =>
                      /\ Len(merged) = 1
                      /\ merged[1] \in {ds[1], ds[2]}
                      /\ merged[1].confidence
                             = Max(ds[1].confidence, ds[2].confidence)
    /\ (merge_pc = "resolved" /\ mode = "NONE") =>
           merged = Concat(detections_list)
    /\ (MergeDone /\ TwoOverlappingClasses) =>
           LET ds == Concat(detections_list)
           IN  /\ Len(merged) = 2
               /\ {merged[i] : i \in DOMAIN merged} = {ds[1], ds[2]}

\* The class-agnostic merge of the 0.9 / 0.8 pair of different classes.
C11_Witness ==
    /\ merge_pc = "resolved" /\ mode = "CLASS_AGNOSTIC_NMS"
    /\ TwoOverlappingClasses
    /\ Len(detections_list) = 2
    /\ merged = <<DetA90>>

\* ================================================== the detection pass
\* detect_small_objects / detect_with_multiple_scales, called from
\* detect_image_with_small_objects.  The caller always passes slice_wh and
\* overlap_wh; iou_threshold and thread_workers come from
\* small_object_config.

\* scale_configs of detect_with_multiple_scales.
ScaleCount == 3
SmallScale == 320
SmallScaleOverlap == 64
MediumScale == 640
MediumScaleOverlap == 128
LargeScale == 960
LargeScaleOverlap == 192

scale_configs ==
    << [slice_wh |-> <<SmallScale, SmallScale>>,
        overlap_wh |-> <<SmallScaleOverlap, SmallScaleOverlap>>],
       [slice_wh |-> <<MediumScale, MediumScale>>,
        overlap_wh |-> <<MediumScaleOverlap, MediumScaleOverlap>>],
       [slice_wh |-> <<LargeScale, LargeScale>>,
        overlap_wh |-> <<LargeScaleOverlap, LargeScaleOverlap>>] >>

\* ------------------------------------------------------- pass input sets
PassShapes == {<<50, 200>>, <<50, 150>>, <<0, 200>>}
\* At 370 pixels the 320-pixel scale cuts two tiles, at x = 0 and x = 50.
MultiShapes == {<<50, 200>>, <<0, 200>>, <<50, 370>>}
PassSlices == {<<100, 100>>}
PassOverlaps == {<<0, 0>>, <<50, 50>>, <<100, 100>>, <<150, 150>>}

\* What the detector may return for one tile, in tile-local coordinates.
LocalA == [box |-> <<0, 0, 10, 10>>, confidence |-> 90, class_id |-> 0]
LocalB == [box |-> <<50, 0, 60, 10>>, confidence |-> 80, class_id |-> 0]
LocalC == [box |-> <<95, 40, 105, 55>>, confidence |-> 70, class_id |-> 0]
LocalD == [box |-> <<0, 0, 10, 5>>, confidence |-> 80, class_id |-> 0]
LocalPool == {LocalA, LocalB, LocalC, LocalD}
DetectorOutputs == {ds \in SeqsUpTo(LocalPool, MaxLocal) : ByConfidence(ds)}

\* ------------------------------- Tile Inference Executor (spec 4.2)
Clamp(v, lo, hi) == Max(lo, Min(v, hi))

\* A tile-local detection moved by the tile's offset and clamped to the
\* image.
RemapNoOffset(d, tile, image_shape) ==
    [d EXCEPT !.box =
        << Clamp(d.box[1], 0, image_shape[2]),
           Clamp(d.box[2], 0, image_shape[1]),
           Clamp(d.box[3], 0, image_shape[2]),
           Clamp(d.box[4], 0, image_shape[1]) >>]

Remap(d, tile, image_shape) ==
    [d EXCEPT !.box =
        << Clamp(d.box[1] + tile.x, 0, image_shape[2]),
           Clamp(d.box[2] + tile.y, 0, image_shape[1]),
           Clamp(d.box[3] + tile.x, 0, image_shape[2]),
           Clamp(d.box[4] + tile.y, 0, image_shape[1]) >>]

RemapAll(dets, tile, image_shape) ==
    [i \in DOMAIN dets |-> Remap(dets[i], tile, image_shape)]

\* ------------------------------------------------- result dictionaries
\* detect_small_objects, the except branch.
PassErrorNoKey(e) ==
    [returned |-> TRUE, detections_none |-> TRUE, detections |-> <<>>,
     detection_count |-> 0, error |-> "", method |-> "InferenceSlicer",
     total_slices |-> 0, scale_results |-> <<>>]

PassError(e) ==
    [returned |-> TRUE, detections_none |-> TRUE, detections |-> <<>>,
     detection_count |-> 0, error |-> e, method |-> "InferenceSlicer",
     total_slices |-> 0, scale_results |-> <<>>]

\* detect_small_objects, the normal return.
PassSuccess(dets, slices) ==
    [returned |-> TRUE, detections_none |-> FALSE, detections |-> dets,
     detection_count |-> Len(dets), error |-> "",
     method |-> "InferenceSlicer", total_slices |-> slices,
     scale_results |-> <<>>]

\* detect_with_multiple_scales, after the loop over the scales.
MultiResult(all, keys, iou) ==
    IF all # <<>>
    THEN LET merged_detections == merge_multi_scale_detections(all, iou)
         IN  [returned |-> TRUE, detections_none |-> FALSE,
              detections |-> merged_detections,
              detection_count |-> Len(merged_detections), error |-> "",
              method |-> "MultiScale", total_slices |-> 0,
              scale_results |-> keys]
    ELSE [returned |-> TRUE, detections_none |-> TRUE, detections |-> <<>>,
          detection_count |-> 0, error |-> "", method |-> "MultiScale",
          total_slices |-> 0, scale_results |-> keys]

\* ---------------------------------------------------------- pass actions
ConfigureDetection ==
    /\ pc = "idle"
    /\ \E t \in IouThresholds, workers \in 1..MaxWorkers :
           small_object_config' =
               [small_object_config EXCEPT !.iou_threshold = t,
                                           !.thread_workers = workers]
    /\ UNCHANGED <<last_call, mergeVars, passVars, restVars>>

\* detect_image_with_small_objects, standard or adaptive mode.
CallDetectSmallObjects ==
    /\ pc = "idle"
    /\ \E shape \in PassShapes, s \in PassSlices, o \in PassOverlaps :
           /\ call' = [method |-> "InferenceSlicer", image_shape |-> shape,
                       iou |-> <<45, 100>>]
           /\ pass_args' = [slice_wh |-> s, overlap_wh |-> o]
    /\ scale' = 0
    /\ pc' = "pass_start"
    /\ UNCHANGED <<regions, next_tile, inflight, buffer, detector_calls,
                   detector_log, all_detections, scale_results, result, ui,
                   error_log, tileVars, mergeVars, restVars>>

\* detect_image_with_small_objects, multi-scale mode.
CallDetectMultipleScales ==
    /\ pc = "idle"
    /\ \E shape \in MultiShapes, t \in IouThresholds :
           call' = [method |-> "MultiScale", image_shape |-> shape,
                    iou |-> t]
    /\ scale' = 1
    /\ pass_args' = scale_configs[1]
    /\ pc' = "pass_start"
    /\ UNCHANGED <<regions, next_tile, inflight, buffer, detector_calls,
                   detector_log, all_detections, scale_results, result, ui,
                   error_log, tileVars, mergeVars, restVars>>

\* What follows the return of detect_small_objects with dictionary r: the
\* single pass returns it; the multi-scale loop records it and goes on to
\* the next scale, or merges after the last one.
\* The loop over the scales left at the first scale that failed.
PassReturnAbort(r) ==
    IF scale = 0
    THEN /\ result' = r
         /\ pc' = "done"
         /\ UNCHANGED <<scale, pass_args, all_detections, scale_results>>
    ELSE LET all == IF r.detections_none THEN all_detections
                    ELSE Append(all_detections, r.detections)
             keys == IF r.detections_none THEN scale_results
                     ELSE Append(scale_results, scale)
         IN  /\ all_detections' = all
             /\ scale_results' = keys
             /\ IF scale < ScaleCount /\ ~r.detections_none
                THEN /\ scale' = scale + 1
                     /\ pass_args' = scale_configs[scale + 1]
                     /\ pc' = "pass_start"
                     /\ UNCHANGED result
                ELSE /\ result' = MultiResult(all, keys, call.iou)
                     /\ pc' = "done"
                     /\ UNCHANGED <<scale, pass_args>>

PassReturn(r) ==
    IF scale = 0
    THEN /\ result' = r
         /\ pc' = "done"
         /\ UNCHANGED <<scale, pass_args, all_detections, scale_results>>
    ELSE LET all == IF r.detections_none THEN all_detections
                    ELSE Append(all_detections, r.detections)
             keys == IF r.detections_none THEN scale_results
                     ELSE Append(scale_results, scale)
         IN  /\ all_detections' = all
             /\ scale_results' = keys
             /\ IF scale < ScaleCount
                THEN /\ scale' = scale + 1
                     /\ pass_args' = scale_configs[scale + 1]
                     /\ pc' = "pass_start"
                     /\ UNCHANGED result
                ELSE /\ result' = MultiResult(all, keys, call.iou)
                     /\ pc' = "done"
                     /\ UNCHANGED <<scale, pass_args>>

\* detect_small_objects returns r; its except branch has logged the error.
PassEnd(r) ==
    /\ error_log' =
           IF r.error # ""
           THEN Append(error_log, [scale |-> scale, error |-> r.error])
           ELSE error_log
    /\ PassReturn(r)

\* slicer(image): the tiles are scheduled before any callback runs.
BeginSlicing ==
    /\ pc = "pass_start"
    /\ LET s == Schedule(call.image_shape, pass_args.slice_wh,
                         pass_args.overlap_wh)
       IN  /\ s.raised = ""
           /\ regions' = s.regions
    /\ next_tile' = 1
    /\ inflight' = {}
    /\ buffer' = <<>>
    /\ detector_log' = <<>>
    /\ pc' = "slicing"
    /\ UNCHANGED <<call, scale, pass_args, detector_calls, all_detections,
                   scale_results, result, ui, error_log, tileVars, mergeVars,
                   restVars>>

\* slicer(image) raises on a malformed configuration; the except branch of
\* detect_small_objects turns it into an error dictionary.
SchedulingFails ==
    /\ pc = "pass_start"
    /\ LET s == Schedule(call.image_shape, pass_args.slice_wh,
                         pass_args.overlap_wh)
       IN  /\ s.raised # ""
           /\ PassEnd(PassError(s.raised))
    /\ UNCHANGED <<call, regions, next_tile, inflight, buffer,
                   detector_calls, detector_log, ui, tileVars, mergeVars,
                   restVars>>

\* A tile is started whatever the number of callbacks in progress.
StartTileUnbounded ==
    /\ pc = "slicing"
    /\ next_tile <= Len(regions)
    /\ inflight' = inflight \cup {next_tile}
    /\ next_tile' = next_tile + 1
    /\ detector_calls' = detector_calls + 1
    /\ UNCHANGED <<pc, call, scale, pass_args, regions, buffer,
                   detector_log, all_detections, scale_results, result, ui,
                   error_log, tileVars, mergeVars, restVars>>

\* A worker takes the next tile and enters callback (model.predict).
StartTile ==
    /\ pc = "slicing"
    /\ next_tile <= Len(regions)
    /\ Cardinality(inflight) < small_object_config.thread_workers
    /\ inflight' = inflight \cup {next_tile}
    /\ next_tile' = next_tile + 1
    /\ detector_calls' = detector_calls + 1
    /\ UNCHANGED <<pc, call, scale, pass_args, regions, buffer,
                   detector_log, all_detections, scale_results, result, ui,
                   error_log, tileVars, mergeVars, restVars>>

\* callback returns; its detections are moved to image coordinates and
\* appended to the accumulated list.
TileReturns ==
    /\ pc = "slicing"
    /\ \E i \in inflight, out \in DetectorOutputs :
           /\ buffer' = buffer \o RemapAll(out, regions[i], call.image_shape)
           /\ detector_log' =
                  Append(detector_log,
                         [tile |-> i, raised |-> FALSE, out |-> out])
           /\ inflight' = inflight \ {i}
    /\ UNCHANGED <<pc, call, scale, pass_args, regions, next_tile,
                   detector_calls, all_detections, scale_results, result,
                   ui, error_log, tileVars, mergeVars, restVars>>

\* callback raises: nothing between the callback and the except branch of
\* detect_small_objects handles it, so the pass ends with an error
\* dictionary and the detections collected so far are dropped.
TileRaises ==
    /\ pc = "slicing"
    /\ \E i \in inflight :
           detector_log' =
               Append(detector_log,
                      [tile |-> i, raised |-> TRUE, out |-> <<>>])
    /\ inflight' = {}
    /\ PassEnd(PassError("DetectorError"))
    /\ UNCHANGED <<call, regions, next_tile, buffer, detector_calls, ui,
                   tileVars, mergeVars, restVars>>

\* All tiles are done: the slicer filters overlaps (NON_MAX_SUPPRESSION at
\* small_object_config['iou_threshold']), the statistics are computed and
\* detect_small_objects returns.
FinishSlicing ==
    /\ pc = "slicing"
    /\ next_tile > Len(regions)
    /\ inflight = {}
    /\ LET detections ==
               with_nms(buffer, small_object_config.iou_threshold, FALSE)
           est == estimate_slice_count(call.image_shape, pass_args.slice_wh,
                                       pass_args.overlap_wh)
       IN  IF est.raised # ""
           THEN PassEnd(PassError(est.raised))
           ELSE PassEnd(PassSuccess(detections, est.count))
    /\ UNCHANGED <<call, regions, next_tile, inflight, buffer,
                   detector_calls, detector_log, ui, tileVars, mergeVars,
                   restVars>>

\* detect_image_with_small_objects after the call: the result is displayed,
\* or its 'error' is raised and caught by the method's own except branch,
\* which shows a message box.
ShowResult ==
    /\ pc = "done"
    /\ ui' = IF result.error = "" THEN "shown" ELSE "error_dialog"
    /\ pc' = "displayed"
    /\ UNCHANGED <<call, scale, pass_args, regions, next_tile, inflight,
                   buffer, detector_calls, detector_log, all_detections,
                   scale_results, result, error_log, tileVars, mergeVars,
                   restVars>>

Init ==
    /\ small_object_config = DefaultConfig
    /\ last_call = NoCall
    /\ MergeIdle
    /\ PassIdle
    /\ RestIdle

Next ==
    \/ ConfigureDetection
    \/ CallDetectSmallObjects
    \/ CallDetectMultipleScales
    \/ BeginSlicing
    \/ SchedulingFails
    \/ StartTile
    \/ TileReturns
    \/ TileRaises
    \/ FinishSlicing
    \/ ShowResult

Spec == Init /\ [][Next]_vars

\* The runs of one mode of detect_image_with_small_objects alone: a single
\* tiled pass, or the multi-scale detection.
SingleNext ==
    \/ ConfigureDetection
    \/ CallDetectSmallObjects
    \/ BeginSlicing
    \/ SchedulingFails
    \/ StartTile
    \/ TileReturns
    \/ TileRaises
    \/ FinishSlicing
    \/ ShowResult

MultiNext ==
    \/ ConfigureDetection
    \/ CallDetectMultipleScales
    \/ BeginSlicing
    \/ SchedulingFails
    \/ StartTile
    \/ TileReturns
    \/ TileRaises
    \/ FinishSlicing
    \/ ShowResult

SpecSingle == Init /\ [][SingleNext]_vars
SpecMulti == Init /\ [][MultiNext]_vars

\* ---------------------------------------------------- pass properties
Single == call.method = "InferenceSlicer"
Multi == call.method = "MultiScale"
TopReturned == pc \in {"done", "displayed"}

\* The configuration of the running pass is malformed: a non-positive step
\* or a non-positive image dimension.
Malformed ==
    /\ pc # "idle"
    /\ \/ ~ValidStep(pass_args.slice_wh, pass_args.overlap_wh)
       \/ ~ValidShape(call.image_shape)

\* C3 (as claimed): a malformed configuration is surfaced to the caller as
\* an error, and no detector callback runs before it.
C3_FailFast ==
    /\ Malformed => detector_calls = 0
    /\ (Malformed /\ TopReturned) => result.error # ""

\* The boxes of a list of detections.
Boxes(dets) == {dets[i].box : i \in DOMAIN dets}

\* The box the claim expects for the local box b of a tile at (x, y).
Moved(b, x, y, image_shape) ==
    << Max(0, Min(b[1] + x, image_shape[2])),
       Max(0, Min(b[2] + y, image_shape[1])),
       Max(0, Min(b[3] + x, image_shape[2])),
       Max(0, Min(b[4] + y, image_shape[1])) >>

\* The two-tile pass of the claim: a 200x50 image cut at x = 0 and x = 100,
\* on both of which the detector returned the box (0, 0, 10, 10).
TwoTileRun ==
    /\ Single /\ TopReturned
    /\ call.image_shape = <<50, 200>>
    /\ pass_args = [slice_wh |-> <<100, 100>>, overlap_wh |-> <<0, 0>>]
    /\ Len(detector_log) = 2
    /\ \A k \in DOMAIN detector_log :
           ~detector_log[k].raised /\ detector_log[k].out = <<LocalA>>

\* C6: every tile-local box the detector returned for a tile at (x, y) is
\* in the executor's output moved by (x, y) and clamped to the image, and
\* nothing else is; the detector that always returns (0, 0, 10, 10), run
\* over the tiles at (0, 0) and (100, 0), yields (0, 0, 10, 10) and
\* (100, 0, 110, 10), also in the returned detections.
C6_Remapping ==
    /\ Boxes(buffer) =
           UNION {{Moved(detector_log[k].out[n].box,
                         regions[detector_log[k].tile].x,
                         regions[detector_log[k].tile].y,
                         call.image_shape) :
                      n \in DOMAIN detector_log[k].out} :
                  k \in DOMAIN detector_log}
    /\ Len(buffer) = Len(Concat([k \in DOMAIN detector_log |->
                                    detector_log[k].out]))
    /\ TwoTileRun =>
           /\ {regions[i].x : i \in DOMAIN regions} = {0, 100}
           /\ Boxes(buffer) = {<<0, 0, 10, 10>>, <<100, 0, 110, 10>>}
           /\ Boxes(result.detections)
                  = {<<0, 0, 10, 10>>, <<100, 0, 110, 10>>}

C6_Witness == TwoTileRun /\ pc = "displayed"

\* Some callback of the pass raised / returned.
SomeRaised == \E k \in DOMAIN detector_log : detector_log[k].raised
SomeReturned ==
    \E k \in DOMAIN detector_log :
        ~detector_log[k].raised /\ detector_log[k].out # <<>>

\* C7 (as claimed): when the callback fails on one tile and another tile
\* returned detections, the detections of the tiles that succeeded are in
\* the result: one failing tile does not discard them.
C7_OtherTilesKept ==
    (Single /\ TopReturned /\ SomeRaised /\ SomeReturned) =>
        /\ ~result.detections_none
        /\ result.detection_count > 0

\* C8: when the callback raised on every tile it was given, the top-level
\* tiled call returns (no exception escapes it) no detections and a
\* diagnostic, and the window's handler ends in its message box.
AllRaised ==
    /\ detector_log # <<>>
    /\ \A k \in DOMAIN detector_log : detector_log[k].raised

C8_AllTilesFail ==
    (Single /\ TopReturned /\ AllRaised) =>
        /\ result.returned
        /\ result.detections = <<>>
        /\ result.detection_count = 0
        /\ result.error # ""
        /\ pc = "displayed" => ui = "error_dialog"

C8_Witness ==
    /\ Single /\ pc = "displayed" /\ AllRaised
    /\ Len(regions) >= 2

\* The pass of the last scale has just returned its detections.
ScaleJustSucceeded ==
    /\ Multi /\ pc \in {"pass_start", "done"}
    /\ scale_results # <<>>
    /\ scale_results[Len(scale_results)]
           = (IF pc = "pass_start" THEN scale - 1 ELSE ScaleCount)

\* C12 (as claimed): a per-scale set enters the concatenation unmerged (it
\* holds every detection the scale's tiles produced), and the result of a
\* multi-scale run is one merge of the whole concatenation at the caller's
\* iou_threshold, whatever the number of scales that returned detections,
\* one included.
C12_OneGlobalMerge ==
    /\ ScaleJustSucceeded =>
           Len(all_detections[Len(all_detections)]) = Len(buffer)
    /\ (Multi /\ TopReturned /\ all_detections # <<>>) =>
           /\ ~result.detections_none
           /\ SortByConfidence(result.detections)
                  = with_nms(Concat(all_detections), call.iou, FALSE)

FailedScales == {error_log[k].scale : k \in DOMAIN error_log}
ReportedScales ==
    {result.scale_results[k] : k \in DOMAIN result.scale_results}

\* C14: in a multi-scale run a failed scale does not abort the others:
\* every scale is run (on a valid image each one enters the detector), the
\* detections of every scale that succeeded are merged into the result (each
\* is in it or suppressed by one that is), and the result tells the failed
\* scales from the others: scale_results lists exactly the scales that did
\* not fail.
C14_FailedScaleDoesNotAbort ==
    (Multi /\ TopReturned) =>
        /\ scale = ScaleCount
        /\ ValidShape(call.image_shape) => detector_calls >= ScaleCount
        /\ ReportedScales = (1..ScaleCount) \ FailedScales
        /\ ReportedScales # {} =>
               LET found == Concat(all_detections)
                   kept == result.detections
               IN  /\ ~result.detections_none
                   /\ \A k \in DOMAIN kept :
                          \E n \in DOMAIN found : found[n] = kept[k]
                   /\ \A n \in DOMAIN found :
                          \E k \in DOMAIN kept :
                              \/ kept[k] = found[n]
                              \/ Suppresses(kept[k], found[n],
                                            call.iou, FALSE)

\* The first scale failed, the two others ran and their detections are in
\* the result.
C14_Witness ==
    /\ Multi /\ pc = "displayed"
    /\ FailedScales = {1}
    /\ ReportedScales = {2, 3}
    /\ result.detection_count = 2

\* C15 (as claimed): when every scale failed on a well-formed image, the
\* multi-scale call returns no detections together with diagnostics and
\* raises nothing, and the caller sees a failure, not a run that found no
\* objects.
C15_AllScalesFailed ==
    (Multi /\ TopReturned /\ ValidShape(call.image_shape)
        /\ FailedScales = 1..ScaleCount) =>
        /\ result.returned
        /\ result.detections = <<>>
        /\ result.detection_count = 0
        /\ result.error # ""
        /\ pc = "displayed" => ui = "error_dialog"

OutputOfTile(i) ==
    detector_log[CHOOSE k \in DOMAIN detector_log :
                     detector_log[k].tile = i].out

\* The detections of the pass laid out by tile index, whatever the order in
\* which the tiles completed.
InTileOrder ==
    Concat([i \in DOMAIN regions |->
               RemapAll(OutputOfTile(i), regions[i], call.image_shape)])

\* A tiled pass has just returned its detections (a single pass, or the
\* pass of one scale), and what it returned.
PassJustSucceeded ==
    \/ Single /\ TopReturned /\ ~result.detections_none
    \/ ScaleJustSucceeded
PassOutput ==
    IF Single THEN result.detections
    ELSE all_detections[Len(all_detections)]

Content(dets) == {dets[k] : k \in DOMAIN dets}

\* C19 (as claimed): for a fixed image, configuration and detector (the
\* same output for the same tile), the content of what a tiled pass returns
\* does not depend on the order in which its tiles completed: it is the
\* merge of the tiles' detections taken in tile order.  The scales of a
\* multi-scale run complete in one order only, so its final set is a
\* function of these per-scale sets.
C19_OrderIndependent ==
    PassJustSucceeded =>
        /\ Content(PassOutput)
               = Content(with_nms(InTileOrder,
                                  small_object_config.iou_threshold, FALSE))
        /\ Len(PassOutput)
               = Len(with_nms(InTileOrder,
                              small_object_config.iou_threshold, FALSE))

\* The fields a detection carries: those of sv.Detections the wrapper
\* fills (xyxy, confidence, class_id).
Fields(d) == DOMAIN d

\* C24 (as claimed): after a multi-scale run every detection of the
\* per-scale sets and of the final output carries scale_id, the identifier
\* of the scale that produced it.
C24_ScaleTagged ==
    (Multi /\ TopReturned) =>
        /\ \A i \in DOMAIN all_detections :
               \A a \in DOMAIN all_detections[i] :
                   "scale_id" \in Fields(all_detections[i][a])
        /\ \A k \in DOMAIN result.detections :
               "scale_id" \in Fields(result.detections[k])

\* The step in which the slicer of a pass filters the overlaps of what it
\* collected: the pass leaves its slicing without logging an error.
SlicerFilters ==
    /\ pc = "slicing"
    /\ pc' # "slicing"
    /\ error_log' = error_log

\* C25 (as claimed): overlap suppression is never applied incrementally: no
\* NMS step starts before the detections of all scheduled tiles and of all
\* scales are collected, and what it sorts is in insertion (tile) order, not
\* in completion order.
C25_NeverIncremental ==
    [][SlicerFilters =>
           /\ next_tile > Len(regions)
           /\ inflight = {}
           /\ Multi => scale = ScaleCount
           /\ buffer = InTileOrder]_vars

\* ======================================= adaptive configuration selectors
\* get_optimal_slice_config (SupervisionWrapper) and get_adaptive_config
\* (SmallObjectConfigManager, under its default adaptive rules).
LowResMaxWidth == 1920
LowResMaxHeight == 1080
MediumResMaxWidth == 3840
MediumResMaxHeight == 2160
LowResSlice == 640
LowResOverlap == 64
MediumResSlice == 800
MediumResOverlap == 128
HighResSlice == 1024
HighResOverlap == 256

LowResPair ==
    [slice_wh |-> <<LowResSlice, LowResSlice>>,
     overlap_wh |-> <<LowResOverlap, LowResOverlap>>]
MediumResPair ==
    [slice_wh |-> <<MediumResSlice, MediumResSlice>>,
     overlap_wh |-> <<MediumResOverlap, MediumResOverlap>>]
HighResPair ==
    [slice_wh |-> <<HighResSlice, HighResSlice>>,
     overlap_wh |-> <<HighResOverlap, HighResOverlap>>]

\* A selector's return value as a record of select_call.
Selected(op, image_shape, pair, est) ==
    [op |-> op, image_shape |-> image_shape, raised |-> est.raised,
     slice_wh |-> pair.slice_wh, overlap_wh |-> pair.overlap_wh,
     estimated_slices |-> est.count]

\* The bucket tests written with < for <=.
get_optimal_slice_config_strict(image_shape) ==
    LET height == image_shape[1]
        width == image_shape[2]
        pair == IF width < LowResMaxWidth /\ height < LowResMaxHeight
                THEN LowResPair
                ELSE IF width < MediumResMaxWidth
                            /\ height < MediumResMaxHeight
                     THEN MediumResPair
                     ELSE HighResPair
    IN  Selected("get_optimal_slice_config", image_shape, pair,
                 estimate_slice_count(image_shape, pair.slice_wh,
                                      pair.overlap_wh))

get_optimal_slice_config(image_shape) ==
    LET height == image_shape[1]
        width == image_shape[2]
        pair == IF width <= LowResMaxWidth /\ height <= LowResMaxHeight
                THEN LowResPair
                ELSE IF width <= MediumResMaxWidth
                            /\ height <= MediumResMaxHeight
                     THEN MediumResPair
                     ELSE HighResPair
    IN  Selected("get_optimal_slice_config", image_shape, pair,
                 estimate_slice_count(image_shape, pair.slice_wh,
                                      pair.overlap_wh))

\* The width alone decides; nothing is estimated.
get_adaptive_config(image_shape) ==
    LET width == image_shape[2]
        pair == IF width <= LowResMaxWidth THEN LowResPair
                ELSE IF width <= MediumResMaxWidth THEN MediumResPair
                     ELSE HighResPair
    IN  Selected("get_adaptive_config", image_shape, pair,
                 [raised |-> "", count |-> 0])

\* Image sizes on both sides of every bucket boundary, and empty images.
SelectHeights ==
    {0, 1, LowResMaxHeight, LowResMaxHeight + 1, MediumResMaxHeight,
     MediumResMaxHeight + 1}
SelectWidths ==
    {0, 1, LowResMaxWidth, LowResMaxWidth + 1, MediumResMaxWidth,
     MediumResMaxWidth + 1}
SelectShapes == SelectHeights \X SelectWidths

OptimalCall ==
    /\ \E shape \in SelectShapes :
           select_call' = get_optimal_slice_config(shape)
    /\ select_prev' = select_call
    /\ UNCHANGED <<tileVars, mergeVars, passVars, annotVars, managerVars,
                   captureVars>>

AdaptiveCall ==
    /\ \E shape \in SelectShapes :
           select_call' = get_adaptive_config(shape)
    /\ select_prev' = select_call
    /\ UNCHANGED <<tileVars, mergeVars, passVars, annotVars, managerVars,
                   captureVars>>

SelectNext == OptimalCall \/ AdaptiveCall \/ ConfigureDetection

SpecSelect == Init /\ [][SelectNext]_vars

\* ---------------------------------------------------- selector properties
SelectReturned == select_call.op # "none" /\ select_call.raised = ""
SelectedPair ==
    [slice_wh |-> select_call.slice_wh, overlap_wh |-> select_call.overlap_wh]

\* The resolution bucket of an image for each selector.
LowRes(op, shape) ==
    /\ shape[2] <= 1920
    /\ op = "get_optimal_slice_config" => shape[1] <= 1080
MediumRes(op, shape) ==
    /\ ~LowRes(op, shape)
    /\ shape[2] <= 3840
    /\ op = "get_optimal_slice_config" => shape[1] <= 2160

C17_RejectsEmptyImage ==
    select_call.op # "none" =>
        (select_call.raised = "InvalidConfig"
            <=> ~ValidShape(select_call.image_shape))

\* C29 (as claimed): the two selectors agree: called on the same non-empty
\* image size, get_optimal_slice_config and get_adaptive_config (default rules)
\* return the same slice_wh and overlap_wh.
C29_SelectorsAgree ==
    (/\ select_call.op # "none"
     /\ select_prev.op # "none"
     /\ select_call.op # select_prev.op
     /\ select_call.image_shape = select_prev.image_shape
     /\ ValidShape(select_call.image_shape)) =>
        /\ select_call.slice_wh = select_prev.slice_wh
        /\ select_call.overlap_wh = select_prev.overlap_wh

\* ====================================================== annotator switches
\* AnnotatorManager.enable_annotator / disable_annotator / toggle_annotator
\* and the methods of the same names of SupervisionWrapper, which take the
\* annotator's name as a string.  Annotator types are written by value.

\* The names the calls are made with: four annotator types and one string
\* that is no annotator type.
AnnotatorArgs == {"box", "label", "mask", "polygon"}
UnknownArgs == {"circle"}

InList(list, t) == \E i \in DOMAIN list : list[i] = t

\* list.remove(t): the first occurrence goes.
RemoveFirst(list, t) ==
    LET i == CHOOSE n \in DOMAIN list :
                 /\ list[n] = t
                 /\ \A m \in 1..(n - 1) : list[m] # t
    IN  SubSeq(list, 1, i - 1) \o SubSeq(list, i + 1, Len(list))

enable_annotator(list, t) ==
    IF ~InList(list, t) THEN Append(list, t) ELSE list

disable_annotator(list, t) ==
    IF InList(list, t) THEN RemoveFirst(list, t) ELSE list

\* The toggle that only ever enables.
toggle_annotator_enables(list, t) == enable_annotator(list, t)

toggle_annotator(list, t) ==
    IF InList(list, t) THEN disable_annotator(list, t)
    ELSE enable_annotator(list, t)

\* The enabled flags configs[t].enabled the same three methods leave, given
\* the enabled list they were called on.
enable_config(list, flags, t) ==
    IF ~InList(list, t) THEN [flags EXCEPT ![t] = TRUE] ELSE flags

disable_config(list, flags, t) ==
    IF InList(list, t) THEN [flags EXCEPT ![t] = FALSE] ELSE flags

toggle_config(list, flags, t) ==
    IF InList(list, t) THEN disable_config(list, flags, t)
    ELSE enable_config(list, flags, t)

\* AnnotatorType(annotator_type) raises ValueError for a string that is no
\* value of the enumeration; the wrapper logs it and changes nothing.
wrapper_enable_annotator(list, name) ==
    IF name \in AnnotatorType THEN enable_annotator(list, name) ELSE list

wrapper_disable_annotator(list, name) ==
    IF name \in AnnotatorType THEN disable_annotator(list, name) ELSE list

wrapper_toggle_annotator(list, name) ==
    IF name \in AnnotatorType THEN toggle_annotator(list, name) ELSE list

AnnotCall(api, op, name, after, flags) ==
    /\ annot_call' = [api |-> api, op |-> op, name |-> name,
                      before |-> enabled_annotators]
    /\ enabled_annotators' = after
    /\ configs' = flags
    /\ UNCHANGED <<tileVars, mergeVars, passVars, selectVars>>
    /\ UNCHANGED captureVars
    /\ UNCHANGED <<annotators, heatmap_history, frame_count, annotate_call>>

EnableCall ==
    \E t \in AnnotatorArgs :
        AnnotCall("AnnotatorManager", "enable", t,
                  enable_annotator(enabled_annotators, t),
                  enable_config(enabled_annotators, configs, t))

DisableCall ==
    \E t \in AnnotatorArgs :
        AnnotCall("AnnotatorManager", "disable", t,
                  disable_annotator(enabled_annotators, t),
                  disable_config(enabled_annotators, configs, t))

ToggleCall ==
    \E t \in AnnotatorArgs :
        AnnotCall("AnnotatorManager", "toggle", t,
                  toggle_annotator(enabled_annotators, t),
                  toggle_config(enabled_annotators, configs, t))

WrapperEnableCall ==
    \E name \in AnnotatorArgs \cup UnknownArgs :
        AnnotCall("SupervisionWrapper", "enable", name,
                  wrapper_enable_annotator(enabled_annotators, name),
                  IF name \in AnnotatorType
                  THEN enable_config(enabled_annotators, configs, name)
                  ELSE configs)

WrapperDisableCall ==
    \E name \in AnnotatorArgs \cup UnknownArgs :
        AnnotCall("SupervisionWrapper", "disable", name,
                  wrapper_disable_annotator(enabled_annotators, name),
                  IF name \in AnnotatorType
                  THEN disable_config(enabled_annotators, configs, name)
                  ELSE configs)

WrapperToggleCall ==
    \E name \in AnnotatorArgs \cup UnknownArgs :
        AnnotCall("SupervisionWrapper", "toggle", name,
                  wrapper_toggle_annotator(enabled_annotators, name),
                  IF name \in AnnotatorType
                  THEN toggle_config(enabled_annotators, configs, name)
                  ELSE configs)

AnnotNext ==
    \/ EnableCall
    \/ DisableCall
    \/ ToggleCall
    \/ WrapperEnableCall
    \/ WrapperDisableCall
    \/ WrapperToggleCall

SpecAnnot == Init /\ [][AnnotNext]_vars

\* --------------------------------------------------- annotator properties
\* C20: after enable(t), t is enabled; after disable(t), t is not; toggle(t)
\* flips t and leaves every other type as it was; the wrapper's methods,
\* called with the type's name, do the same, and with a name that is no
\* annotator type they leave the enabled list unchanged.
C20_EnableDisableToggle ==
    LET t == annot_call.name
        before == annot_call.before
        after == enabled_annotators
    IN  /\ (annot_call.op = "enable" /\ t \in AnnotatorType) =>
               InList(after, t)
        /\ (annot_call.op = "disable" /\ t \in AnnotatorType) =>
               ~InList(after, t)
        /\ (annot_call.op = "toggle" /\ t \in AnnotatorType) =>
               /\ InList(after, t) <=> ~InList(before, t)
               /\ \A u \in AnnotatorType \ {t} :
                      InList(after, u) <=> InList(before, u)
        /\ (annot_call.op # "none" /\ t \notin AnnotatorType) =>
               after = before

\* The wrapper has just toggled off an annotator that was enabled among
\* others.
C20_Witness ==
    /\ annot_call.api = "SupervisionWrapper"
    /\ annot_call.op = "toggle"
    /\ annot_call.name = "mask"
    /\ InList(annot_call.before, "mask")
    /\ Len(enabled_annotators) >= 2
    /\ ~InList(enabled_annotators, "mask")

\* ======================================================= annotator manager
\* AnnotatorManager from its construction on: _load_config, _parse_config,
\* _initialize_annotators, set_preset and update_annotator_config.

\* dict order of self.configs and the order of list(AnnotatorType).
EnumOrder ==
    <<"box", "label", "mask", "polygon", "heatmap", "blur", "pixelate">>

SeqToSet(list) == {list[i] : i \in DOMAIN list}

NoDuplicates(list) ==
    \A i \in DOMAIN list, j \in DOMAIN list : list[i] = list[j] => i = j

\* The enabled flags a construction starts from: the default configuration,
\* a file that enables mask and heatmap, and a file that enables nothing.
FileConfigs ==
    {DefaultConfigs,
     [t \in AnnotatorType |-> t \in {"mask", "heatmap"}],
     [t \in AnnotatorType |-> FALSE]}

\* The annotators whose constructor can raise in the installed library; the
\* manager keeps None for them.  Box and label fall back to the default
\* constructor.
Optional == {"mask", "heatmap"}
Built(failed) ==
    [t \in AnnotatorType |-> IF t \in failed THEN "None" ELSE "built"]

\* _initialize_annotators: the flags and the enabled list it leaves.
InitializedFlags(flags, built) ==
    LET kept == [t \in AnnotatorType |-> flags[t] /\ built[t] # "None"]
    IN  IF \E t \in AnnotatorType : kept[t]
        THEN kept
        ELSE [kept EXCEPT !["box"] = TRUE, !["label"] = TRUE]

InitializedList(flags, built) ==
    LET kept(t) == flags[t] /\ built[t] # "None"
        list == SelectSeq(EnumOrder, kept)
    IN  IF list = <<>> THEN <<"box", "label">> ELSE list

\* The state AnnotatorManager.__init__ leaves.
Constructed ==
    \E flags \in FileConfigs, failed \in SUBSET Optional :
        /\ annotators = Built(failed)
        /\ configs = InitializedFlags(flags, annotators)
        /\ enabled_annotators = InitializedList(flags, annotators)
        /\ annot_call = NoAnnotCall
        /\ heatmap_history = <<>>
        /\ frame_count = 0
        /\ annotate_call = NoAnnotate

ManagerInit ==
    /\ small_object_config = DefaultConfig
    /\ last_call = NoCall
    /\ MergeIdle
    /\ PassIdle
    /\ SelectIdle
    /\ CaptureIdle
    /\ Constructed

\* presets of set_preset.
Presets ==
    [basic |-> <<"box", "label">>,
     detailed |-> <<"box", "label", "polygon">>,
     privacy |-> <<"blur", "label">>,
     analysis |-> <<"box", "label", "heatmap">>,
     segmentation |-> <<"mask", "label">>,
     all |-> EnumOrder]

PresetArgs == DOMAIN Presets \cup {"invalid_preset"}

\* for annotator_type in presets[preset_name]: self.enable_annotator(...)
RECURSIVE EnableEach(_, _, _)
EnableEach(list, flags, types) ==
    IF types = <<>> THEN [list |-> list, flags |-> flags]
    ELSE EnableEach(enable_annotator(list, Head(types)),
                    enable_config(list, flags, Head(types)),
                    Tail(types))

\* The preset that keeps what was enabled before it.
set_preset_keeps(list, flags, preset_name) ==
    IF preset_name \in DOMAIN Presets
    THEN EnableEach(list, flags, Presets[preset_name])
    ELSE [list |-> list, flags |-> flags]

set_preset(list, flags, preset_name) ==
    IF preset_name \in DOMAIN Presets
    THEN EnableEach(<<>>, [t \in AnnotatorType |-> FALSE],
                    Presets[preset_name])
    ELSE [list |-> list, flags |-> flags]

\* AnnotatorManager.set_preset; SupervisionWrapper.set_annotator_preset
\* hands its argument to it.
SetPresetCall ==
    \E preset_name \in PresetArgs :
        LET after == set_preset(enabled_annotators, configs, preset_name)
        IN  AnnotCall("AnnotatorManager", "set_preset", preset_name,
                      after.list, after.flags)

\* update_annotator_config(annotator_type, **kwargs): a keyword that is an
\* attribute of the configuration is set, 'enabled' among them; then the
\* annotator is built again, and keeps its old value when that raises.
UpdateArgs == {"heatmap"}
Keywords == {"enabled=True", "enabled=False", "thickness=3"}

update_annotator_config(flags, t, keyword) ==
    IF keyword = "enabled=True" THEN [flags EXCEPT ![t] = TRUE]
    ELSE IF keyword = "enabled=False" THEN [flags EXCEPT ![t] = FALSE]
    ELSE flags

UpdateConfigCall ==
    \E t \in UpdateArgs, keyword \in Keywords, rebuilt \in BOOLEAN :
        /\ annot_call' = [api |-> "AnnotatorManager", op |-> "update_config",
                          name |-> t, before |-> enabled_annotators]
        /\ configs' = update_annotator_config(configs, t, keyword)
        /\ annotators' =
               IF rebuilt THEN [annotators EXCEPT ![t] = "built"]
               ELSE annotators
        /\ UNCHANGED <<tileVars, mergeVars, passVars, selectVars>>
        /\ UNCHANGED captureVars
        /\ UNCHANGED <<enabled_annotators, heatmap_history, frame_count,
                       annotate_call>>

ManagerNext ==
    \/ EnableCall
    \/ DisableCall
    \/ SetPresetCall
    \/ UpdateConfigCall

SpecManager == ManagerInit /\ [][ManagerNext]_vars

\* ----------------------------------------------------- manager properties
\* C21: a set_preset step with a known preset name leaves exactly the
\* annotators of the preset enabled, each once, and exactly their enabled
\* flags set; with an unknown name it leaves the enabled list and every
\* enabled flag as they were.
C21_SetPreset ==
    [][annot_call'.op = "set_preset" =>
           LET preset_name == annot_call'.name
           IN  IF preset_name \in DOMAIN Presets
               THEN /\ SeqToSet(enabled_annotators')
                           = SeqToSet(Presets[preset_name])
                    /\ NoDuplicates(enabled_annotators')
                    /\ configs' = [t \in AnnotatorType |->
                                       t \in SeqToSet(Presets[preset_name])]
               ELSE /\ enabled_annotators' = enabled_annotators
                    /\ configs' = configs]_vars

\* The privacy preset replaced a list that held mask and box.
C21_Witness ==
    /\ annot_call.op = "set_preset"
    /\ annot_call.name = "privacy"
    /\ InList(annot_call.before, "mask")
    /\ InList(annot_call.before, "box")
    /\ enabled_annotators = <<"blur", "label">>

\* C27 (as claimed): in every state of the manager the enabled list holds
\* no type twice, holds only types whose annotator was built, and
\* configs[t].enabled is true exactly for the types in the list.
C27_EnabledConsistent ==
    /\ NoDuplicates(enabled_annotators)
    /\ \A t \in SeqToSet(enabled_annotators) : annotators[t] # "None"
    /\ \A t \in AnnotatorType :
           configs[t] <=> InList(enabled_annotators, t)

\* ========================================================== annotate_image
\* AnnotatorManager.annotate_image, _apply_single_annotator,
\* _apply_heatmap_annotator and clear_heatmap_history.
max_heatmap_frames == 100
MinHeatmapFrames == 5

annotation_order ==
    <<"heatmap", "mask", "blur", "pixelate", "polygon", "box", "label">>

\* The arguments of the calls: detections is None, empty or holds boxes,
\* with or without masks; custom_annotators is absent or a list in an order
\* of the caller's; failing are the annotators whose annotate() raises on
\* this frame.
DetectionArgs == {"None", "empty", "boxes"}
CustomArgs == {<<>>, <<"label", "box">>, <<"box", "heatmap", "mask">>}
FailingArgs == {{}, {"heatmap"}}

\* annotators_to_use = custom_annotators or self.enabled_annotators
annotators_to_use(custom_annotators, list) ==
    IF custom_annotators # <<>> THEN custom_annotators ELSE list

\* _apply_heatmap_annotator is entered when the heatmap is to be used and
\* was built.
HeatmapApplied(detections, to_use, built) ==
    /\ detections = "boxes"
    /\ InList(to_use, "heatmap")
    /\ built["heatmap"] # "None"

\* The history that drops the newest frame when it is full.
heatmap_append_drops_newest(history, frame) ==
    IF Len(history) + 1 > max_heatmap_frames THEN history
    ELSE Append(history, frame)

\* heatmap_history.append(detections), then pop(0) over the limit.
heatmap_append(history, frame) ==
    IF Len(history) + 1 > max_heatmap_frames
    THEN Tail(Append(history, frame))
    ELSE Append(history, frame)

\* The loop that gives up at the first annotator that is None or raises.
LayersUntilFailure(to_use, built, mask, failing, history) ==
    LET stops(t) ==
            InList(to_use, t) /\ (built[t] = "None" \/ t \in failing)
        Before(n) == \A m \in 1..(n - 1) : ~stops(annotation_order[m])
        drawn(t) ==
            /\ InList(to_use, t)
            /\ built[t] # "None"
            /\ t \notin failing
            /\ t = "mask" => mask
            /\ t = "heatmap" => Len(history) >= MinHeatmapFrames
            /\ \E n \in DOMAIN annotation_order :
                   annotation_order[n] = t /\ Before(n)
    IN  SelectSeq(annotation_order, drawn)

\* The layers drawn on the copy, in the order they are drawn.
Layers(to_use, built, mask, failing, history) ==
    LET drawn(t) ==
            /\ InList(to_use, t)
            /\ built[t] # "None"
            /\ t \notin failing
            /\ t = "mask" => mask
            /\ t = "heatmap" => Len(history) >= MinHeatmapFrames
    IN  SelectSeq(annotation_order, drawn)

\* annotate_image that records the frame before it looks at detections.
annotate_history_eager(detections, to_use, built, history, frame) ==
    IF InList(to_use, "heatmap") /\ built["heatmap"] # "None"
    THEN heatmap_append(history, frame)
    ELSE history

annotate_history(detections, to_use, built, history, frame) ==
    IF HeatmapApplied(detections, to_use, built)
    THEN heatmap_append(history, frame)
    ELSE history

AnnotateCall ==
    \E detections \in DetectionArgs, custom_annotators \in CustomArgs,
       mask \in BOOLEAN, failing \in FailingArgs :
        LET to_use ==
                annotators_to_use(custom_annotators, enabled_annotators)
            history ==
                annotate_history(detections, to_use, annotators,
                                 heatmap_history, frame_count)
        IN  /\ heatmap_history' = history
            /\ frame_count' =
                   IF HeatmapApplied(detections, to_use, annotators)
                   THEN (frame_count + 1) % FrameIds
                   ELSE frame_count
            /\ annotate_call' =
                   [op |-> "annotate",
                    detections |-> detections,
                    custom_annotators |-> custom_annotators,
                    mask |-> mask,
                    failing |-> failing,
                    layers |-> IF detections = "boxes"
                               THEN Layers(to_use, annotators, mask,
                                           failing, history)
                               ELSE <<>>,
                    copy |-> TRUE,
                    full |-> Len(heatmap_history) = max_heatmap_frames]
            /\ UNCHANGED <<tileVars, mergeVars, passVars, selectVars>>
            /\ UNCHANGED captureVars
            /\ UNCHANGED <<annotVars, configs, annotators>>

ClearHeatmapCall ==
    /\ heatmap_history' = <<>>
    /\ annotate_call' = [NoAnnotate EXCEPT !.op = "clear_heatmap_history"]
    /\ UNCHANGED <<tileVars, mergeVars, passVars, selectVars>>
    /\ UNCHANGED captureVars
    /\ UNCHANGED <<annotVars, configs, annotators, frame_count>>

AnnotateNext == AnnotateCall \/ ClearHeatmapCall

SpecAnnotate == ManagerInit /\ [][AnnotateNext]_vars

\* ---------------------------------------------------- annotate properties
Annotated == annotate_call.op = "annotate"
AnnotateStep == annotate_call'.op = "annotate"
ClearStep == annotate_call'.op = "clear_heatmap_history"

\* The list the step's call used, and whether it used the heatmap.
StepToUse ==
    annotators_to_use(annotate_call'.custom_annotators, enabled_annotators)
StepUsesHeatmap ==
    HeatmapApplied(annotate_call'.detections, StepToUse, annotators)

\* What every step keeps of the heatmap history: the limit, the oldest frame
\* going first, and the clearing.
HistoryKept ==
    /\ Len(heatmap_history') <= max_heatmap_frames
    /\ (AnnotateStep /\ StepUsesHeatmap) =>
           heatmap_history' =
               IF Len(heatmap_history) = max_heatmap_frames
               THEN Tail(heatmap_history) \o <<frame_count>>
               ELSE Append(heatmap_history, frame_count)
    /\ ClearStep => heatmap_history' = <<>>

\* C22 (as claimed): the heatmap history never holds more than
\* max_heatmap_frames frames, the oldest frame is the one dropped, the
\* history is non-empty after every annotate call with non-empty detections
\* made while the heatmap annotator is enabled, and clear_heatmap_history
\* leaves it empty.
C22_HeatmapHistory ==
    [][/\ HistoryKept
       /\ (AnnotateStep /\ annotate_call'.detections = "boxes"
              /\ InList(enabled_annotators, "heatmap")) =>
              heatmap_history' # <<>>]_vars

\* C22 (amended): the same, the history being non-empty after every annotate
\* call with non-empty detections that uses the heatmap annotator: it is in
\* custom_annotators, or in the enabled list when no custom_annotators are
\* given, and it was built.
C22_HeatmapHistoryWhenUsed ==
    [][/\ HistoryKept
       /\ (AnnotateStep /\ StepUsesHeatmap) => heatmap_history' # <<>>
       /\ (AnnotateStep /\ ~StepUsesHeatmap) =>
              heatmap_history' = heatmap_history]_vars

\* A frame was recorded in a history that was full: the history is still
\* full and the new frame is its last.
C22_Witness ==
    /\ Annotated
    /\ annotate_call.full
    /\ annotate_call.detections = "boxes"
    /\ InList(annotators_to_use(annotate_call.custom_annotators,
                                enabled_annotators), "heatmap")
    /\ annotators["heatmap"] = "built"
    /\ Len(heatmap_history) = max_heatmap_frames
    /\ heatmap_history[max_heatmap_frames]
           = (frame_count + FrameIds - 1) % FrameIds

\* C23: an annotate_image step whose detections are None or empty returns a
\* copy of the image with nothing drawn on it and leaves the heatmap
\* history, the enabled list, the enabled flags and the annotators as they
\* were, whichever annotators are enabled.
C23_EmptyDetections ==
    [][(AnnotateStep /\ annotate_call'.detections \in {"None", "empty"}) =>
           /\ annotate_call'.copy
           /\ annotate_call'.layers = <<>>
           /\ UNCHANGED <<heatmap_history, frame_count, enabled_annotators,
                          configs, annotators>>]_vars

\* The heatmap is enabled and has frames, and the last call was made with
\* empty detections.
C23_Witness ==
    /\ Annotated
    /\ annotate_call.detections = "empty"
    /\ annotate_call.custom_annotators = <<>>
    /\ InList(enabled_annotators, "heatmap")
    /\ annotators["heatmap"] = "built"
    /\ Len(heatmap_history) >= 2

\* The position of an annotator in annotation_order.
Layer(t) == CHOOSE n \in DOMAIN annotation_order : annotation_order[n] = t

\* C26: the layers annotate_image draws are in the order HEATMAP, MASK,
\* BLUR, PIXELATE, POLYGON, BOX, LABEL whatever the order of the list it
\* uses; an annotator that is None or raises is skipped, and every other
\* annotator of the list is drawn (the mask when the detections have masks,
\* the heatmap once the history holds MinHeatmapFrames frames).
C26_LayerOrder ==
    (Annotated /\ annotate_call.detections = "boxes") =>
        LET to_use == annotators_to_use(annotate_call.custom_annotators,
                                        enabled_annotators)
            layers == annotate_call.layers
            usable(t) ==
                /\ annotators[t] # "None"
                /\ t \notin annotate_call.failing
        IN  /\ \A i \in DOMAIN layers, j \in DOMAIN layers :
                   i < j => Layer(layers[i]) < Layer(layers[j])
            /\ \A t \in SeqToSet(layers) : InList(to_use, t) /\ usable(t)
            /\ \A t \in SeqToSet(to_use) :
                   (/\ usable(t)
                    /\ t = "mask" => annotate_call.mask
                    /\ t = "heatmap" =>
                           Len(heatmap_history) >= MinHeatmapFrames) =>
                       InList(layers, t)

\* The caller listed box, heatmap, mask; the heatmap raised; the mask was
\* drawn, and the box after it.
C26_Witness ==
    /\ Annotated
    /\ annotate_call.detections = "boxes"
    /\ annotate_call.custom_annotators = <<"box", "heatmap", "mask">>
    /\ annotate_call.failing = {"heatmap"}
    /\ annotate_call.layers = <<"mask", "box">>

\* ========================================================= capture session
\* YOLODetectionUI (main.py): load_model, detect_video, detect_camera,
\* update_camera_frame (the slot of the frame timer), stop_detection and
\* closeEvent.  cap is None, an opened capture or one that failed to open;
\* a button can be clicked only while it is enabled.
Did(op, outcome, w) == [w EXCEPT !.last = op, !.outcome = outcome]

stop_detection(w) ==
    [w EXCEPT !.timer = FALSE, !.cap = "None", !.video_writer = "None",
              !.is_camera_running = FALSE, !.stop_btn = FALSE,
              !.image_btn = TRUE, !.video_btn = TRUE, !.camera_btn = TRUE]

\* The body of the try block of detect_video / detect_camera: the capture
\* does not open; or it opens and creating the results directory or the
\* writer raises; or the session starts.
StartOutcomes == {"not_opened", "writer_failed", "started"}

start_capture(w, camera, outcome) ==
    IF outcome = "not_opened" THEN [w EXCEPT !.cap = "unopened"]
    ELSE IF outcome = "writer_failed" THEN [w EXCEPT !.cap = "open"]
    ELSE [w EXCEPT !.cap = "open", !.video_writer = "open", !.written = 0,
                   !.stop_btn = TRUE, !.save_btn = TRUE,
                   !.image_btn = FALSE,
                   !.video_btn = FALSE, !.camera_btn = FALSE,
                   !.is_camera_running = (camera \/ w.is_camera_running),
                   !.timer = TRUE]

\* load_model: on success the three start buttons are enabled, whatever is
\* running.
LoadModel ==
    /\ ~window.closed
    /\ \E loaded \in BOOLEAN :
           window' =
               IF loaded
               THEN Did("load_model", "loaded",
                        [window EXCEPT !.model = TRUE, !.image_btn = TRUE,
                                       !.video_btn = TRUE,
                                       !.camera_btn = TRUE])
               ELSE Did("load_model", "failed", window)
    /\ UNCHANGED <<tileVars, mergeVars, passVars, selectVars, annotVars,
                   managerVars>>

\* detect_video: no model, or the file dialog is cancelled, or the try block.
DetectVideo ==
    /\ ~window.closed
    /\ window.video_btn
    /\ \/ /\ ~window.model
          /\ window' = Did("detect_video", "no_model", window)
       \/ /\ window.model
          /\ window' = Did("detect_video", "cancelled", window)
       \/ /\ window.model
          /\ \E outcome \in StartOutcomes :
                 window' = Did("detect_video", outcome,
                               start_capture(window, FALSE, outcome))
    /\ UNCHANGED <<tileVars, mergeVars, passVars, selectVars, annotVars,
                   managerVars>>

DetectCamera ==
    /\ ~window.closed
    /\ window.camera_btn
    /\ \/ /\ ~window.model
          /\ window' = Did("detect_camera", "no_model", window)
       \/ /\ window.model
          /\ \E outcome \in StartOutcomes :
                 window' = Did("detect_camera", outcome,
                               start_capture(window, TRUE, outcome))
    /\ UNCHANGED <<tileVars, mergeVars, passVars, selectVars, annotVars,
                   managerVars>>

\* update_camera_frame: without an opened capture, or when read() returns no
\* frame, the session is stopped; else the frame is shown, and written when
\* there is a writer.  read() returns no frame after MaxWritten frames.
UpdateCameraFrame ==
    /\ ~window.closed
    /\ window.timer
    /\ \E ret \in BOOLEAN :
           window' =
               IF window.cap # "open" \/ ~ret \/ window.written = MaxWritten
               THEN Did("update_camera_frame", "stopped",
                        stop_detection(window))
               ELSE Did("update_camera_frame", "frame",
                        [window EXCEPT !.written =
                             IF window.video_writer # "None"
                             THEN window.written + 1 ELSE window.written])
    /\ UNCHANGED <<tileVars, mergeVars, passVars, selectVars, annotVars,
                   managerVars>>

\* The stop button.
StopDetection ==
    /\ ~window.closed
    /\ window.stop_btn
    /\ window' = Did("stop_detection", "stopped", stop_detection(window))
    /\ UNCHANGED <<tileVars, mergeVars, passVars, selectVars, annotVars,
                   managerVars>>

CloseEvent ==
    /\ ~window.closed
    /\ window' = Did("closeEvent", "stopped",
                     [stop_detection(window) EXCEPT !.closed = TRUE])
    /\ UNCHANGED <<tileVars, mergeVars, passVars, selectVars, annotVars,
                   managerVars>>

CaptureNext ==
    \/ LoadModel
    \/ DetectVideo
    \/ DetectCamera
    \/ UpdateCameraFrame
    \/ StopDetection
    \/ CloseEvent

SpecCapture == Init /\ [][CaptureNext]_vars

\* ----------------------------------------------------- capture properties
StartButtons == {window.image_btn, window.video_btn, window.camera_btn}
Released ==
    /\ ~window.timer
    /\ window.cap = "None"
    /\ window.video_writer = "None"
    /\ ~window.is_camera_running

\* C30 (as claimed): while the frame timer runs the image, video and camera
\* buttons are disabled, so that one capture session is active at a time;
\* after stop_detection (the stop button, the end of the video or a capture
\* failure in update_camera_frame, the closing of the window) the timer is
\* stopped, cap and video_writer are None, is_camera_running is false and
\* the three start buttons are enabled; a failed start leaves no open
\* capture and no open writer.
C30_OneSessionReleased ==
    /\ window.timer => StartButtons = {FALSE}
    /\ window.outcome = "stopped" => Released /\ StartButtons = {TRUE}
    /\ window.outcome \in {"not_opened", "writer_failed"} =>
           /\ window.cap # "open"
           /\ window.video_writer # "open"

====
